---- MODULE Spec2Model ----
(***************************************************************************)
(* ESP8266 wireless 1-wire sensor (esp-now-sensor.ino).                    *)
(*                                                                         *)
(* The sketch is modelled statement by statement: setup(), then loop(),    *)
(* which calls send_sensor_values() and start_deep_sleep().  The drivers   *)
(* (DallasTemperature, espnow, ESP) are the environment: the values they   *)
(* return are chosen nondeterministically from small sets.                 *)
(***************************************************************************)
EXTENDS Integers, Sequences, FiniteSets, TLC

VARIABLES
    pc,             \* position of the main flow
    myData,         \* the global struct_message (line 74)
    wifiMode,       \* radio mode set by WiFi.mode
    espnowInit,     \* TRUE once esp_now_init has returned 0
    selfRole,       \* role given to esp_now_set_self_role
    sendCb,         \* callback given to esp_now_register_send_cb
    peers,          \* number of esp_now_add_peer calls for receiverAdress
    temperature,    \* local `temperature` of send_sensor_values
    retry,          \* loop counter of the retry loop
    driverTemp,     \* values getTempC returned in this call of loop()
    results,        \* values of `res` in this call of loop(), in order
    sent,           \* payloads handed to esp_now_send in this call of loop()
    calls,          \* platform calls made by start_deep_sleep in this call of loop()
    sleepReq,       \* arguments given to ESP.deepSleep in this call of loop()
    suspendPending, \* a deep-sleep request is outstanding
    pendingCb,      \* send-completion notifications not yet delivered
    serial,         \* last line written to Serial
    reruns          \* calls of loop() after the first one, since the last reset

vars == <<pc, myData, wifiMode, espnowInit, selfRole, sendCb, peers, temperature,
          retry, driverTemp, results, sent, calls, sleepReq, suspendPending,
          pendingCb, serial, reruns>>

-----------------------------------------------------------------------------
(* Bounds of the model *)

\* loop() may be entered again this many times before the suspension takes effect
MaxReruns == 1

\* readings within this distance of the fault threshold are enumerated
TempSpread == 1

-----------------------------------------------------------------------------
(* Program constants *)

UNIQUE_DEVICE_ID == 1

SEND_INTERVALL_SECONDS == 1800

VER_MAJOR == 1

VER_MINOR == 1

max_retries == 3

\* enum sensor_states
SUCCESS == 0

FAILED == 1

NOT_USED == 2

\* the literal of `temperature <= -120`
FaultThreshold == -120

\* "1-wire error =-127 C"
DeviceDisconnected == -127

\* the literal 1000000 of start_deep_sleep
MicrosPerSecond == 1000000

-----------------------------------------------------------------------------
(* Fixed-width arithmetic *)

Half == 2^16

\* conversion to uint8_t
ToUint8(x) == x % 256

\* conversion of a non-negative constant below 2^31 to uint32_t
ToUint32(x) == ((x \div Half) % Half) * Half + (x % Half)

\* a * b in 32-bit signed int arithmetic (two's complement wrap-around), for
\* 0 <= a < 2^15 and 0 <= b < 2^31, computed on 16-bit halves
MulInt32(a, b) ==
    LET bl    == b % Half
        bh    == b \div Half
        low   == a * bl
        lo    == low % Half
        hi    == (a * bh + (low \div Half)) % Half
    IN  IF hi >= Half \div 2
          THEN (hi - Half) * Half + lo
          ELSE hi * Half + lo

\* conversion of an int to the uint64_t parameter of ESP.deepSleep; a negative
\* int becomes 2^64 + x, written <<"2^64+", x>>
ToUint64(x) == IF x >= 0 THEN x ELSE <<"2^64+", x>>

-----------------------------------------------------------------------------
(* Environment *)

\* readings the temperature driver may return (whole degrees Celsius)
Temps == {DeviceDisconnected, 21}
           \cup ((FaultThreshold - TempSpread) .. (FaultThreshold + TempSpread))

\* return codes of esp_now_init and esp_now_send (0 is success)
ReturnCodes == {0, 1, -1}

\* status codes handed to the send callback
CbStatus == {0, 1}

-----------------------------------------------------------------------------
(* The record *)

ZeroSensor == [state |-> 0, value |-> 0]

\* myData before setup: a zero-initialised global
ZeroData ==
    [id |-> 0, sensor_1 |-> ZeroSensor, sensor_2 |-> ZeroSensor,
     ver |-> [major |-> 0, minor |-> 0], intervall |-> 0]

\* lines 82-85
SetupRecordCopyPaste(d) ==
    [d EXCEPT !.id = ToUint8(UNIQUE_DEVICE_ID),
              !.ver.major = ToUint8(VER_MAJOR),
              !.ver.minor = ToUint8(VER_MINOR),
              !.intervall = ToUint32(VER_MINOR)]

SetupRecord(d) ==
    [d EXCEPT !.id = ToUint8(UNIQUE_DEVICE_ID),
              !.ver.major = ToUint8(VER_MAJOR),
              !.ver.minor = ToUint8(VER_MINOR),
              !.intervall = ToUint32(SEND_INTERVALL_SECONDS)]

\* the test `temperature <= -120`
IsFaultStrict(t) == t < FaultThreshold

IsFault(t) == t <= FaultThreshold

\* the if/else of lines 118-123 and 127-132 applied to one struct_sensor
ClassifyClearing(s, t) ==
    IF IsFault(t)
      THEN [state |-> FAILED, value |-> 0]
      ELSE [state |-> SUCCESS, value |-> t]

Classify(s, t) ==
    IF IsFault(t)
      THEN [s EXCEPT !.state = FAILED]
      ELSE [s EXCEPT !.state = SUCCESS, !.value = t]

\* the loop condition `retry < max_retries`
LoopContinuesInclusive(r) == r <= max_retries

LoopContinues(r) == r < max_retries

\* the argument expression SEND_INTERVALL_SECONDS * 1000000
SleepMillis(s) == ToUint64(MulInt32(s, 1000))

SleepMicros(s) == ToUint64(MulInt32(s, MicrosPerSecond))

\* the statements of start_deep_sleep, in program order
StartDeepSleepYieldFirst == <<"println", "yield", "deepSleep">>

StartDeepSleepBody == <<"println", "deepSleep", "yield">>

-----------------------------------------------------------------------------
(* Initial state: the device after reset *)

Init ==
    /\ pc = "setup_record"
    /\ myData = ZeroData
    /\ wifiMode = "OFF"
    /\ espnowInit = FALSE
    /\ selfRole = "NONE"
    /\ sendCb = "NONE"
    /\ peers = 0
    /\ temperature = 0
    /\ retry = 0
    /\ driverTemp = <<>>
    /\ results = <<>>
    /\ sent = <<>>
    /\ calls = <<>>
    /\ sleepReq = <<>>
    /\ suspendPending = FALSE
    /\ pendingCb = 0
    /\ serial = <<>>
    /\ reruns = 0

-----------------------------------------------------------------------------
(* setup() *)

\* lines 82-85
SetupData ==
    /\ pc = "setup_record"
    /\ myData' = SetupRecord(myData)
    /\ pc' = "setup_periph"
    /\ UNCHANGED <<wifiMode, espnowInit, selfRole, sendCb, peers, temperature,
                   retry, driverTemp, results, sent, calls, sleepReq,
                   suspendPending, pendingCb, serial, reruns>>

\* lines 88-97: Serial.begin, sensors.begin, WiFi.mode(WIFI_STA)
SetupPeripherals ==
    /\ pc = "setup_periph"
    /\ wifiMode' = "STA"
    /\ pc' = "setup_espnow"
    /\ UNCHANGED <<myData, espnowInit, selfRole, sendCb, peers, temperature,
                   retry, driverTemp, results, sent, calls, sleepReq,
                   suspendPending, pendingCb, serial, reruns>>

\* lines 100-103, with a fatal halt in place of the return
SetupEspNowInitHalts ==
    /\ pc = "setup_espnow"
    /\ \E rc \in ReturnCodes :
         IF rc # 0
           THEN /\ serial' = <<"Error initializing ESP-NOW">>
                /\ pc' = "halted"
                /\ UNCHANGED espnowInit
           ELSE /\ espnowInit' = TRUE
                /\ pc' = "setup_register"
                /\ UNCHANGED serial
    /\ UNCHANGED <<myData, wifiMode, selfRole, sendCb, peers, temperature,
                   retry, driverTemp, results, sent, calls, sleepReq,
                   suspendPending, pendingCb, reruns>>

\* lines 100-103: a non-zero code prints the error and returns from setup
SetupEspNowInit ==
    /\ pc = "setup_espnow"
    /\ \E rc \in ReturnCodes :
         IF rc # 0
           THEN /\ serial' = <<"Error initializing ESP-NOW">>
                /\ pc' = "loop_call"
                /\ UNCHANGED espnowInit
           ELSE /\ espnowInit' = TRUE
                /\ pc' = "setup_register"
                /\ UNCHANGED serial
    /\ UNCHANGED <<myData, wifiMode, selfRole, sendCb, peers, temperature,
                   retry, driverTemp, results, sent, calls, sleepReq,
                   suspendPending, pendingCb, reruns>>

\* lines 107-111
SetupRegister ==
    /\ pc = "setup_register"
    /\ selfRole' = "CONTROLLER"
    /\ sendCb' = "OnDataSent"
    /\ peers' = peers + 1
    /\ pc' = "loop_call"
    /\ UNCHANGED <<myData, wifiMode, espnowInit, temperature, retry, driverTemp,
                   results, sent, calls, sleepReq, suspendPending, pendingCb,
                   serial, reruns>>

-----------------------------------------------------------------------------
(* loop() *)

\* the core calls loop(); the per-call history starts empty
LoopEntry ==
    /\ pc = "loop_call"
    /\ pc' = "request"
    /\ driverTemp' = <<>>
    /\ results' = <<>>
    /\ sent' = <<>>
    /\ calls' = <<>>
    /\ sleepReq' = <<>>
    /\ UNCHANGED <<myData, wifiMode, espnowInit, selfRole, sendCb, peers,
                   temperature, retry, suspendPending, pendingCb, serial, reruns>>

\* line 115
RequestTemperatures ==
    /\ pc = "request"
    /\ pc' = "read1"
    /\ UNCHANGED <<myData, wifiMode, espnowInit, selfRole, sendCb, peers,
                   temperature, retry, driverTemp, results, sent, calls, sleepReq,
                   suspendPending, pendingCb, serial, reruns>>

\* lines 116-123
ReadProbe1 ==
    /\ pc = "read1"
    /\ \E t \in Temps :
         /\ temperature' = t
         /\ driverTemp' = Append(driverTemp, t)
         /\ myData' = [myData EXCEPT !.sensor_1 = Classify(myData.sensor_1, t)]
    /\ pc' = "read2"
    /\ UNCHANGED <<wifiMode, espnowInit, selfRole, sendCb, peers, retry, results,
                   sent, calls, sleepReq, suspendPending, pendingCb, serial, reruns>>

\* lines 125-132, and the initialisation `retry = 0` of line 143
ReadProbe2 ==
    /\ pc = "read2"
    /\ \E t \in Temps :
         /\ temperature' = t
         /\ driverTemp' = Append(driverTemp, t)
         /\ myData' = [myData EXCEPT !.sensor_2 = Classify(myData.sensor_2, t)]
    /\ retry' = 0
    /\ pc' = "send"
    /\ UNCHANGED <<wifiMode, espnowInit, selfRole, sendCb, peers, results, sent,
                   calls, sleepReq, suspendPending, pendingCb, serial, reruns>>

\* lines 143-156, one iteration: the send call, then break or ++retry
SendAttempt ==
    /\ pc = "send"
    /\ LoopContinues(retry)
    /\ \E rc \in ReturnCodes :
         LET res == ToUint8(rc) IN
         /\ results' = Append(results, res)
         /\ sent' = Append(sent, myData)
         /\ pendingCb' = IF sendCb = "OnDataSent" THEN pendingCb + 1 ELSE pendingCb
         /\ IF res = 0
              THEN /\ pc' = "start_deep_sleep"
                   /\ UNCHANGED retry
              ELSE /\ retry' = retry + 1
                   /\ UNCHANGED pc
    /\ UNCHANGED <<myData, wifiMode, espnowInit, selfRole, sendCb, peers,
                   temperature, driverTemp, calls, sleepReq, suspendPending,
                   serial, reruns>>

\* line 143, with exhausted retries treated as fatal
LoopExitFatal ==
    /\ pc = "send"
    /\ ~LoopContinues(retry)
    /\ pc' = "halted"
    /\ UNCHANGED <<myData, wifiMode, espnowInit, selfRole, sendCb, peers,
                   temperature, retry, driverTemp, results, sent, calls, sleepReq,
                   suspendPending, pendingCb, serial, reruns>>

\* line 143: the loop condition is false, send_sensor_values returns
LoopExit ==
    /\ pc = "send"
    /\ ~LoopContinues(retry)
    /\ pc' = "start_deep_sleep"
    /\ UNCHANGED <<myData, wifiMode, espnowInit, selfRole, sendCb, peers,
                   temperature, retry, driverTemp, results, sent, calls, sleepReq,
                   suspendPending, pendingCb, serial, reruns>>

\* lines 160-162: the next statement of start_deep_sleep
StartDeepSleepStep ==
    /\ pc = "start_deep_sleep"
    /\ Len(calls) < Len(StartDeepSleepBody)
    /\ LET stmt == StartDeepSleepBody[Len(calls) + 1] IN
         /\ calls' = Append(calls, stmt)
         /\ serial' = IF stmt = "println"
                        THEN <<"Going to deep sleep...">> ELSE serial
         /\ sleepReq' = IF stmt = "deepSleep"
                          THEN Append(sleepReq, SleepMicros(SEND_INTERVALL_SECONDS))
                          ELSE sleepReq
         /\ suspendPending' = (suspendPending \/ stmt = "deepSleep")
    /\ pc' = IF Len(calls) + 1 = Len(StartDeepSleepBody)
               THEN "loop_end" ELSE "start_deep_sleep"
    /\ UNCHANGED <<myData, wifiMode, espnowInit, selfRole, sendCb, peers,
                   temperature, retry, driverTemp, results, sent, pendingCb, reruns>>

\* loop() has returned and the suspension has not taken effect yet: the core
\* calls loop() again
LoopAgain ==
    /\ pc = "loop_end"
    /\ reruns < MaxReruns
    /\ reruns' = reruns + 1
    /\ pc' = "loop_call"
    /\ UNCHANGED <<myData, wifiMode, espnowInit, selfRole, sendCb, peers,
                   temperature, retry, driverTemp, results, sent, calls, sleepReq,
                   suspendPending, pendingCb, serial>>

-----------------------------------------------------------------------------
(* Platform *)

\* lines 77-79, with the status fed back into the retry loop
OnDataSentFeedsBack ==
    /\ pendingCb > 0
    /\ sendCb = "OnDataSent"
    /\ \E status \in CbStatus :
         /\ serial' = <<"Packet Send Status", status>>
         /\ retry' = IF status # 0 THEN 0 ELSE retry
    /\ pendingCb' = pendingCb - 1
    /\ UNCHANGED <<pc, myData, wifiMode, espnowInit, selfRole, sendCb, peers,
                   temperature, driverTemp, results, sent, calls, sleepReq,
                   suspendPending, reruns>>

\* lines 77-79: the send-completion callback prints the status
OnDataSent ==
    /\ pendingCb > 0
    /\ sendCb = "OnDataSent"
    /\ \E status \in CbStatus :
         serial' = <<"Packet Send Status", status>>
    /\ pendingCb' = pendingCb - 1
    /\ UNCHANGED <<pc, myData, wifiMode, espnowInit, selfRole, sendCb, peers,
                   temperature, retry, driverTemp, results, sent, calls, sleepReq,
                   suspendPending, reruns>>

\* the requested deep sleep takes effect and ends with a reset: memory and
\* radio state are lost and execution starts again at setup()
Wake ==
    /\ suspendPending
    /\ pc \in {"start_deep_sleep", "loop_end"}
    /\ pc' = "setup_record"
    /\ myData' = ZeroData
    /\ wifiMode' = "OFF"
    /\ espnowInit' = FALSE
    /\ selfRole' = "NONE"
    /\ sendCb' = "NONE"
    /\ peers' = 0
    /\ temperature' = 0
    /\ retry' = 0
    /\ driverTemp' = <<>>
    /\ results' = <<>>
    /\ sent' = <<>>
    /\ calls' = <<>>
    /\ sleepReq' = <<>>
    /\ suspendPending' = FALSE
    /\ pendingCb' = 0
    /\ serial' = <<>>
    /\ reruns' = 0

-----------------------------------------------------------------------------
(* Specifications *)

Next ==
    \/ SetupData
    \/ SetupPeripherals
    \/ SetupEspNowInit
    \/ SetupRegister
    \/ LoopEntry
    \/ RequestTemperatures
    \/ ReadProbe1
    \/ ReadProbe2
    \/ SendAttempt
    \/ LoopExit
    \/ StartDeepSleepStep
    \/ LoopAgain
    \/ OnDataSent
    \/ Wake

Spec == Init /\ [][Next]_vars

\* the statements of setup() and of one call of loop(): a single thread of
\* control that always executes its next statement
MainFlow ==
    \/ SetupData
    \/ SetupPeripherals
    \/ SetupEspNowInit
    \/ SetupRegister
    \/ LoopEntry
    \/ RequestTemperatures
    \/ ReadProbe1
    \/ ReadProbe2
    \/ SendAttempt
    \/ LoopExit
    \/ StartDeepSleepStep

FairSpec == Spec /\ WF_vars(MainFlow)

-----------------------------------------------------------------------------
(* Properties *)

Sensor(d, i) == IF i = 1 THEN d.sensor_1 ELSE d.sensor_2

\* reading i of record d is what the classification of driver value v asks for
Classified(d, i, v) ==
    /\ v <= -120 => Sensor(d, i).state = FAILED
    /\ v > -120 => Sensor(d, i).state = SUCCESS /\ Sensor(d, i).value = v

\* C1: for each probe and every value v the driver returned, v <= -120 leaves
\* the reading's state FAILED, and v > -120 leaves it SUCCESS with value v, in
\* the record and in every payload sent.
C1_Classification ==
    /\ \A i \in 1..Len(driverTemp) : Classified(myData, i, driverTemp[i])
    /\ \A k \in 1..Len(sent) :
         \A i \in 1..2 : Classified(sent[k], i, driverTemp[i])

C1_Witness ==
    /\ Len(sent) >= 1
    /\ driverTemp = <<-120, -119>>
    /\ sent[1].sensor_1.state = FAILED
    /\ sent[1].sensor_2 = [state |-> SUCCESS, value |-> -119]

C3_ReachesSleep ==
    /\ [](sleepReq # <<>> =>
            /\ Len(results) >= 1
            /\ results[Len(results)] = 0 \/ Len(results) = 3)
    /\ [](pc # "halted")
    /\ (pc = "request") ~> (sleepReq # <<>>)

C3_Witness ==
    /\ sleepReq # <<>>
    /\ results = <<1, 255, 1>>

\* C4: before the first esp_now_send call the radio is in station mode,
\* esp_now_init has succeeded, the send callback is registered and the peer
\* has been registered exactly once.
C4_RadioReadyBeforeSend ==
    sent # <<>> =>
        /\ wifiMode = "STA"
        /\ espnowInit
        /\ sendCb = "OnDataSent"
        /\ peers = 1

RecordConstants(d) ==
    /\ d.id = UNIQUE_DEVICE_ID
    /\ d.ver.major = VER_MAJOR
    /\ d.ver.minor = VER_MINOR
    /\ d.intervall = SEND_INTERVALL_SECONDS

\* C5: from the end of the assignments of setup onward the record's id,
\* ver.major, ver.minor and intervall hold UNIQUE_DEVICE_ID, VER_MAJOR,
\* VER_MINOR and SEND_INTERVALL_SECONDS, in every state and in every payload.
C5_ConstantFields ==
    /\ pc # "setup_record" => RecordConstants(myData)
    /\ \A k \in 1..Len(sent) : RecordConstants(sent[k])

C5_Witness ==
    /\ reruns = 1
    /\ pc = "loop_end"
    /\ Len(sent) = 3
    /\ serial = <<"Packet Send Status", 1>>

\* C6: the suspension requested is SEND_INTERVALL_SECONDS x 1,000,000
\* microseconds, 1,800,000,000, the product in 32-bit int arithmetic being the
\* mathematical product, for the seconds value held in the record's intervall.
C6_SleepDuration ==
    \A i \in 1..Len(sleepReq) :
        /\ sleepReq[i] = SEND_INTERVALL_SECONDS * 1000000
        /\ sleepReq[i] = 1800000000
        /\ sleepReq[i] = myData.intervall * 1000000

C6_Witness == sleepReq = <<1800000000>>

InitErrorPrinted == serial = <<"Error initializing ESP-NOW">>

\* C7: when esp_now_init returns non-zero nothing is registered, and the
\* main cycle still performs acquisition, 1 to 3 send attempts and the
\* deep-sleep request.
C7_InitFailureContinues ==
    /\ [](InitErrorPrinted =>
            /\ ~espnowInit
            /\ selfRole = "NONE"
            /\ sendCb = "NONE"
            /\ peers = 0)
    /\ InitErrorPrinted ~>
         (/\ ~espnowInit
          /\ peers = 0
          /\ Len(driverTemp) = 2
          /\ Len(results) \in 1..3
          /\ sleepReq = <<1800000000>>)

C7_Witness ==
    /\ ~espnowInit
    /\ sendCb = "NONE"
    /\ pc = "loop_end"
    /\ Len(results) = 3
    /\ sleepReq # <<>>

\* everything but the notifications pending and the Serial output
mainVars == <<pc, myData, wifiMode, espnowInit, selfRole, sendCb, peers, temperature,
              retry, driverTemp, results, sent, calls, sleepReq, suspendPending,
              reruns>>

\* C8: a delivery of the send callback changes nothing the main flow reads or
\* writes: position, record, retry counter, attempts made, payloads and
\* sleep request are as they were.
C8_CallbackNoInfluence ==
    [][(pendingCb' = pendingCb - 1 /\ pc' = pc) => UNCHANGED mainVars]_vars

C8_Witness ==
    /\ pc = "send"
    /\ retry = 2
    /\ pendingCb = 1
    /\ serial = <<"Packet Send Status", 1>>

\* C9 as stated: the yield call immediately precedes the ESP.deepSleep call.
C9_YieldBeforeDeepSleep ==
    \A i \in 1..Len(calls) :
        calls[i] = "deepSleep" => i > 1 /\ calls[i - 1] = "yield"

\* C9, amended: the yield call immediately follows the ESP.deepSleep call:
\* ESP.deepSleep precedes yield in start_deep_sleep with no step in between.
C9_YieldAfterDeepSleep ==
    \A i \in 1..Len(calls) :
        calls[i] = "yield" =>
            /\ i > 1
            /\ calls[i - 1] = "deepSleep"
            /\ sleepReq # <<>>

C9_Witness ==
    /\ calls = <<"println", "deepSleep", "yield">>
    /\ pc = "loop_end"

\* C10: acquisition of one probe leaves the other probe's reading alone and
\* leaves the value of a reading it marks FAILED as it was; the record does
\* not change during the retry loop, so all payloads of a cycle are equal.
C10_AcquisitionFrame ==
    /\ [][/\ pc = "read1" =>
               /\ myData'.sensor_2 = myData.sensor_2
               /\ myData'.sensor_1.state = FAILED =>
                      myData'.sensor_1.value = myData.sensor_1.value
          /\ pc = "read2" =>
               /\ myData'.sensor_1 = myData.sensor_1
               /\ myData'.sensor_2.state = FAILED =>
                      myData'.sensor_2.value = myData.sensor_2.value
          /\ pc = "send" => myData' = myData]_vars
    /\ [](\A i, j \in 1..Len(sent) : sent[i] = sent[j])

C10_Witness ==
    /\ reruns = 1
    /\ Len(sent) = 3
    /\ myData.sensor_1 = [state |-> FAILED, value |-> 21]
    /\ myData.sensor_2 = [state |-> FAILED, value |-> 0]

====
